---- MODULE Spec2Model ----
(***************************************************************************)
(* The state tree of src/lib/state/tree.js: a tree of nodes addressed by   *)
(* path.  A node is a provisional tree node, a finalized branch or a leaf. *)
(* Every Rx stream of the source is modelled by what it holds and by the   *)
(* values it delivers, delivery being synchronous and in call order:       *)
(*   getChildrenSubject / childrenObservable  -> reg (keys, insertion      *)
(*       order) and regErr (the error the stream ended with)               *)
(*   the leaf BehaviorSubject                  -> val                      *)
(*   valueSubject (ReplaySubject(1))           -> pub, off (ended)         *)
(*   pauser (BehaviorSubject, tree wide)       -> pauser                   *)
(*   the setter's subscription                 -> setterOff (disposed)     *)
(* One action is one call made by the node layer: an add-child event      *)
(* on a node's sink, setInitialState on the root, setNextState on a node.  *)
(***************************************************************************)
EXTENDS Integers, Sequences, FiniteSets, TLC

Keys == {"a", "b"}
KeyOrder == <<"a", "b">>
Root == <<>>
Paths == {Root} \cup {<<k>> : k \in Keys} \cup {<<k1, k2>> : k1 \in Keys, k2 \in Keys}
MaxOps == 3

\* ---------------------------------------------------------------- values
L(n) == [t |-> "leaf", n |-> n]
O(f) == [t |-> "obj", kv |-> f]
Undef == [t |-> "undefined"]
NoVal == [t |-> "none"]

Range(q) == {q[i] : i \in 1..Len(q)}
KeySeq(S) == SelectSeq(KeyOrder, LAMBDA k : k \in S)
Child(p, k) == Append(p, k)
Parent(p) == SubSeq(p, 1, Len(p) - 1)
LastKey(p) == p[Len(p)]
Below(c) == {q \in Paths : Len(q) > Len(c) /\ SubSeq(q, 1, Len(c)) = c}

isPlainObject(v) == v.t = "obj"
ObjectKeys(v) == IF v.t = "obj" THEN DOMAIN v.kv ELSE {}

\* how many levels of children a value needs below the node that takes it
Height(v) ==
  IF v.t # "obj" \/ DOMAIN v.kv = {} THEN 0
  ELSE IF \E k \in DOMAIN v.kv : v.kv[k].t = "obj" /\ DOMAIN v.kv[k].kv # {} THEN 2
  ELSE 1
Fits(v, c) == Len(c) + Height(v) <= 2

\* the shapes callers declare and assign: a scalar, the empty object, flat objects,
\* an object whose first key holds a nested object, one whose last key does
Flat(S, n) == O([k \in S |-> L(n)])
Shapes(n) ==
  {L(n), O(<<>>), Flat({"a"}, n), Flat({"a", "b"}, n),
   O(("a" :> Flat({"a"}, n)) @@ ("b" :> L(n))),
   O(("a" :> L(n)) @@ ("b" :> Flat({"a"}, n)))}
\* initial states that callers declare, and next states that they assign
InitVals == Shapes(1)
NextVals == Shapes(2) \cup {L(1), Flat({"b"}, 2)}

VARIABLES kind, reg, val, pub, gen, pauser, regErr, setterOff, off, subOrder,
          emits, lastOp, nops, subAt, got
vars == <<kind, reg, val, pub, gen, pauser, regErr, setterOff, off, subOrder,
          emits, lastOp, nops, subAt, got>>

\* ------------------------------------------------------- the machine state
Cur ==
  [kind |-> kind, reg |-> reg, val |-> val, pub |-> pub, gen |-> gen,
   pauser |-> pauser, regErr |-> regErr, setterOff |-> setterOff, off |-> off,
   subOrder |-> subOrder, emits |-> <<>>, dropped |-> {}, rebuilt |-> {},
   depth |-> 0, reopened |-> FALSE, err |-> "none"]

throw(s, e) == [s EXCEPT !.err = e]

Final(s, p) == s.kind[p] \in {"leaf", "branch"}
IsTree(s, p) == s.kind[p] \in {"prov", "branch"}
Latest(s, p) == IF s.kind[p] = "leaf" THEN s.val[p] ELSE s.pub[p]
Conn(s) == IF s.pauser THEN Paths ELSE {}

\* stage A of createTreeObservable: the registry's children that are not provisional
liveNodes(s, q) == {k \in Range(s.reg[q]) : Final(s, Child(q, k))}

\* stage B of createTreeObservable: combineLatest of the live children's streams
createTreeObservable(s, q) ==
  LET combineLatest(live) ==
        IF live = {} \/ \E k \in live : Latest(s, Child(q, k)) = NoVal THEN NoVal
        ELSE O([k \in live |-> Latest(s, Child(q, k))])
  IN combineLatest(liveNodes(s, q))

\* the value stream of q ends with the registry's error; so do the streams that combine it
RECURSIVE Terminate(_, _, _)
Terminate(s, q, conn) ==
  LET onError(s1) ==
        IF q = Root THEN s1
        ELSE IF /\ Parent(q) \in conn /\ IsTree(s1, Parent(q)) /\ ~s1.off[Parent(q)]
                /\ LastKey(q) \in liveNodes(s1, Parent(q))
             THEN Terminate(s1, Parent(q), conn) ELSE s1
  IN onError([s EXCEPT !.off[q] = TRUE])

\* valueObservable.subscribe(valueSubject): q recomputes and publishes, and each
\* connected ancestor that combines q recomputes in turn
RECURSIVE Publish(_, _, _)
Publish(s, q, conn) ==
  LET deliver(s1) ==
        IF q = Root THEN s1
        ELSE IF LastKey(q) \in liveNodes(s1, Parent(q)) THEN Publish(s1, Parent(q), conn)
        ELSE s1
      onNext(v) ==
        IF v = NoVal THEN s
        ELSE deliver([s EXCEPT !.pub[q] = v, !.emits = Append(@, [p |-> q, v |-> v])])
  IN IF q \notin conn \/ ~IsTree(s, q) \/ s.off[q] THEN s
     ELSE IF \E k \in liveNodes(s, q) : s.off[Child(q, k)] THEN Terminate(s, q, conn)
     ELSE onNext(createTreeObservable(s, q))

\* pauser.onNext(true): every pausable reconnects, in the order of subscription
RECURSIVE Reconnect(_, _, _)
Reconnect(s, order, conn) ==
  LET registryError(s1, q, cn) ==
        IF s1.regErr[q] # "none" /\ ~s1.off[q] THEN Terminate(s1, q, cn) ELSE s1
      connect(q, cn) == registryError(Publish(s, q, cn), q, cn)
  IN IF order = <<>> THEN s
     ELSE Reconnect(connect(Head(order), conn \cup {Head(order)}),
                    Tail(order), conn \cup {Head(order)})

Resume(s) == IF s.pauser THEN s ELSE Reconnect([s EXCEPT !.pauser = TRUE], s.subOrder, {})

\* ------------------------------------------------------------- setNextState
\* the leaf's subject read without distinctUntilChanged
leafSetNextState_everyValue(s, p, v) ==
  LET deliver(s1) ==
        IF p # Root /\ LastKey(p) \in liveNodes(s1, Parent(p))
        THEN Publish(s1, Parent(p), Conn(s1)) ELSE s1
  IN deliver([s EXCEPT !.val[p] = v, !.emits = Append(@, [p |-> p, v |-> v])])

leafSetNextState(s, p, v) ==
  LET deliver(s1) ==
        IF p # Root /\ LastKey(p) \in liveNodes(s1, Parent(p))
        THEN Publish(s1, Parent(p), Conn(s1)) ELSE s1
  IN IF v = s.val[p] THEN s
     ELSE deliver([s EXCEPT !.val[p] = v, !.emits = Append(@, [p |-> p, v |-> v])])

RECURSIVE setNextState(_, _, _)
RECURSIVE routeKeys(_, _, _, _)
routeKeys(s, p, v, keys) ==
  IF keys = <<>> \/ s.err # "none" THEN s
  ELSE IF Head(keys) \in ObjectKeys(v)
       THEN routeKeys(setNextState(s, Child(p, Head(keys)), v.kv[Head(keys)]), p, v, Tail(keys))
       ELSE throw(s, "ShapeError")

createTreeSetNextState(s, p, v) ==
  LET dispose(s1) == IF s1.err # "none" THEN [s1 EXCEPT !.setterOff[p] = TRUE] ELSE s1
  IN IF s.setterOff[p] \/ s.reg[p] = <<>> THEN [s EXCEPT !.dropped = @ \cup {p}]
     ELSE dispose(IF Cardinality(ObjectKeys(v)) # Len(s.reg[p])
                  THEN throw(s, "ShapeError")
                  ELSE routeKeys(s, p, v, s.reg[p]))

setNextState(s, p, v) ==
  IF s.kind[p] = "leaf" THEN leafSetNextState(s, p, v) ELSE createTreeSetNextState(s, p, v)

\* ------------------------------------------------------------ construction
RECURSIVE createTree(_, _, _, _, _)
RECURSIVE createChildrenObservable(_, _, _, _, _)

\* createNode of the node layer: the node takes its lifecycle state; a node that
\* replaces its provisional self is pushed on the same node stream, which the
\* parent's stage A is combining
createNode(s, c, k) ==
  LET push(s1) ==
        IF c # Root /\ k # "prov" /\ LastKey(c) \in Range(s1.reg[Parent(c)])
        THEN Publish(s1, Parent(c), Conn(s1)) ELSE s1
  IN push([s EXCEPT !.kind[c] = k])

RECURSIVE addKeys(_, _, _, _)
addKeys(s, c, v, keys) ==
  IF keys = <<>> \/ s.err # "none" THEN s
  ELSE addKeys(createChildrenObservable(s, c, Head(keys), v.kv[Head(keys)], FALSE),
               c, v, Tail(keys))

\* depth counts the bulk declarations in progress; reopened records a
\* pauser.onNext(true) issued while an enclosing declaration is still running.
updateAddChildrenSubject(s, c, v) ==
  LET leave(s2) == [s2 EXCEPT !.depth = @ - 1, !.reopened = @ \/ s2.depth > 1]
      unpause(s1) == IF s1.err # "none" THEN s1 ELSE leave(Resume(s1))
  IN unpause(addKeys([s EXCEPT !.pauser = FALSE, !.depth = @ + 1],
                     c, v, KeySeq(ObjectKeys(v))))

createFinalTreeFromProvisionalNode(s, c, v) ==
  LET promote(s1) == IF s1.err # "none" THEN s1 ELSE createNode(s1, c, "branch")
  IN promote(updateAddChildrenSubject(s, c, v))

createInitialTree(s, c, v, provisional, hasProv) ==
  LET gone == Below(c) \cup {c}
      subscribe(s2) == IF s2.pauser THEN Publish(s2, c, {c}) ELSE s2
      finish(s1) ==
        IF s1.err # "none" THEN s1
        ELSE createNode(subscribe([s1 EXCEPT !.subOrder = Append(@, c)]),
                        c, IF provisional THEN "prov" ELSE "branch")
      declare(s0) == IF provisional THEN s0 ELSE updateAddChildrenSubject(s0, c, v)
  IN finish(declare(
       [s EXCEPT
          !.kind = [q \in Paths |-> IF q = c THEN "prov"
                                    ELSE IF q \in gone THEN "absent" ELSE @[q]],
          !.reg = [q \in Paths |-> IF q \in gone THEN <<>> ELSE @[q]],
          !.val = [q \in Paths |-> IF q \in gone THEN NoVal ELSE @[q]],
          !.pub = [q \in Paths |-> IF q \in gone THEN NoVal ELSE @[q]],
          !.regErr = [q \in Paths |-> IF q \in gone THEN "none" ELSE @[q]],
          !.setterOff = [q \in Paths |-> IF q \in gone THEN FALSE ELSE @[q]],
          !.off = [q \in Paths |-> IF q \in gone THEN FALSE ELSE @[q]],
          !.subOrder = SelectSeq(@, LAMBDA q : q \notin gone),
          !.rebuilt = @ \cup gone,
          !.gen[c] = IF hasProv THEN @ ELSE @ + 1]))

createLeaf(s, c, v, hasProv) ==
  IF hasProv /\ s.regErr[c] # "none" THEN throw(s, s.regErr[c])
  ELSE IF hasProv /\ s.reg[c] # <<>> THEN throw(s, "LeafError")
  ELSE createNode([s EXCEPT !.val[c] = v, !.pub[c] = NoVal,
                              !.subOrder = SelectSeq(@, LAMBDA q : q # c),
                              !.gen[c] = IF hasProv THEN @ ELSE @ + 1,
                              !.emits = Append(@, [p |-> c, v |-> v])],
                  c, "leaf")

createTree_withoutInPlace(s, c, v, provisional, hasProv) ==
  IF v = Undef THEN createInitialTree(s, c, v, TRUE, FALSE)
  ELSE IF ~provisional /\ ~isPlainObject(v) THEN createLeaf(s, c, v, hasProv)
  ELSE createInitialTree(s, c, v, provisional, hasProv)

createTree(s, c, v, provisional, hasProv) ==
  IF v = Undef THEN createInitialTree(s, c, v, TRUE, FALSE)
  ELSE IF ~provisional /\ ~isPlainObject(v) THEN createLeaf(s, c, v, hasProv)
  ELSE IF ~provisional /\ hasProv THEN createFinalTreeFromProvisionalNode(s, c, v)
  ELSE createInitialTree(s, c, v, provisional, hasProv)

\* one add-child event {key, value, provisional} on the sink of p
createChildrenObservable(s, p, k, v, provisional) ==
  LET oldNode == IF k \in Range(s.reg[p]) THEN s.kind[Child(p, k)] ELSE "absent"
      onNext(s2) == Publish(s2, p, Conn(s2))
      record(s1) ==
        IF s1.err # "none" THEN [s1 EXCEPT !.regErr[p] = s1.err]
        ELSE onNext([s1 EXCEPT !.reg[p] = IF k \in Range(@) THEN @ ELSE Append(@, k)])
  IN IF s.regErr[p] # "none" THEN [s EXCEPT !.dropped = @ \cup {p}]
     ELSE IF oldNode \in {"absent", "prov"}
          THEN record(createTree(s, Child(p, k), v, provisional, oldNode = "prov"))
          ELSE [throw(s, "FinalizedError") EXCEPT !.regErr[p] = "FinalizedError"]

\* ------------------------------------------------------------------ actions
\* An outside subscriber of one node's value stream (valueSubject.asObservable()
\* of a tree node, subject.distinctUntilChanged() of a leaf): subAt is the node
\* it subscribed to, got the values it has received so far.  A node whose
\* subjects are created anew leaves the old stream, and its subscriber, behind.
NoSub == <<"-">>
subscriberOnNext_replayOnly(s, q) == <<>>
subscriberOnNext(s, q) ==
  LET es == SelectSeq(s.emits, LAMBDA e : e.p = q)
  IN [i \in 1..Len(es) |-> es[i].v]

Commit(s, op) ==
  /\ kind' = s.kind /\ reg' = s.reg /\ val' = s.val /\ pub' = s.pub /\ gen' = s.gen
  /\ pauser' = s.pauser /\ regErr' = s.regErr /\ setterOff' = s.setterOff
  /\ off' = s.off /\ subOrder' = s.subOrder /\ emits' = s.emits
  /\ lastOp' = [op EXCEPT !.err = s.err, !.dropped = s.dropped, !.reopened = s.reopened]
  /\ nops' = nops + 1
  /\ subAt' = IF subAt \in s.rebuilt THEN NoSub ELSE subAt
  /\ got' = IF subAt = NoSub \/ subAt \in s.rebuilt THEN <<>> ELSE got \o subscriberOnNext(s, subAt)

Op(name, p, k, v, provisional) ==
  [name |-> name, path |-> p, key |-> k, arg |-> v, provisional |-> provisional,
   err |-> "none", dropped |-> {}, reopened |-> FALSE]

Init ==
  /\ kind = [q \in Paths |-> IF q = Root THEN "prov" ELSE "absent"]
  /\ reg = [q \in Paths |-> <<>>]
  /\ val = [q \in Paths |-> NoVal]
  /\ pub = [q \in Paths |-> NoVal]
  /\ gen = [q \in Paths |-> IF q = Root THEN 1 ELSE 0]
  /\ pauser = TRUE
  /\ regErr = [q \in Paths |-> "none"]
  /\ setterOff = [q \in Paths |-> FALSE]
  /\ off = [q \in Paths |-> FALSE]
  /\ subOrder = <<Root>>
  /\ emits = <<>>
  /\ lastOp = Op("createState", Root, "", Undef, TRUE)
  /\ nops = 0
  /\ subAt = NoSub
  /\ got = <<>>

AddChild ==
  /\ nops < MaxOps
  /\ \E p \in Paths, k \in Keys, v \in InitVals \cup {Undef}, provisional \in BOOLEAN :
       /\ IsTree(Cur, p) /\ Len(p) < 2
       /\ Fits(v, Child(p, k))
       /\ v = Undef => provisional
       /\ Commit(createChildrenObservable(Cur, p, k, v, provisional),
                 Op("addChild", p, k, v, provisional))

SetInitialState ==
  /\ nops < MaxOps
  /\ \E p \in Paths, v \in InitVals :
       /\ kind[p] = "prov"
       /\ Fits(v, p)
       /\ Commit(createTree(Cur, p, v, FALSE, TRUE), Op("setInitialState", p, "", v, FALSE))

SetNextState ==
  /\ nops < MaxOps
  /\ \E p \in Paths, v \in NextVals :
       /\ kind[p] # "absent"
       /\ Fits(v, p)
       /\ Commit(setNextState(Cur, p, v), Op("setNextState", p, "", v, FALSE))

\* node.asObservable().subscribe(...) on a node that already has a value: the
\* ReplaySubject(1) of a tree node, the BehaviorSubject of a leaf, replays it.
Subscribe ==
  /\ nops < MaxOps
  /\ subAt = NoSub
  /\ \E q \in Paths :
       /\ kind[q] # "absent"
       /\ Latest(Cur, q) # NoVal
       /\ subAt' = q
       /\ got' = <<Latest(Cur, q)>>
       /\ lastOp' = Op("subscribe", q, "", Undef, FALSE)
  /\ emits' = <<>>
  /\ nops' = nops + 1
  /\ UNCHANGED <<kind, reg, val, pub, gen, pauser, regErr, setterOff, off, subOrder>>

Next == AddChild \/ SetInitialState \/ SetNextState \/ Subscribe

Spec == Init /\ [][Next]_vars

TypeOK ==
  /\ kind \in [Paths -> {"absent", "prov", "leaf", "branch"}]
  /\ \A q \in Paths : Range(reg[q]) \subseteq Keys /\ Len(reg[q]) = Cardinality(Range(reg[q]))
  /\ \A q \in Paths : \A k \in Range(reg[q]) : kind[Child(q, k)] # "absent"
  /\ \A q \in Paths : q # Root /\ kind[q] # "absent" => LastKey(q) \in Range(reg[Parent(q)])
  /\ \A q \in Paths : (kind[q] = "leaf") = (val[q] # NoVal)
  /\ pauser \in BOOLEAN
  /\ subAt \in Paths \cup {NoSub}
  /\ subAt # NoSub => kind[subAt] # "absent"

\* --------------------------------------------------------------- properties
OnPath(es, q) == SelectSeq(es, LAMBDA e : e.p = q)
RegKeys(q) == Range(reg[q])

\* C1: setNextState on a finalized branch with registry key set K (K empty
\* included), given an object whose key set differs from K, fails with a shape
\* error; it is never silently accepted or dropped.
C1_MismatchFailsWithShapeError ==
  (/\ lastOp.name = "setNextState"
   /\ kind[lastOp.path] = "branch"
   /\ isPlainObject(lastOp.arg)
   /\ ObjectKeys(lastOp.arg) # RegKeys(lastOp.path))
  => lastOp.err = "ShapeError"

\* C2: a setNextState that is rejected with a shape error, at the branch it is
\* called on or at a descendant reached by the fan-out, has invoked no child
\* setter: every leaf value is what it was before the call.
C2_RejectedSetNextStateIsAtomic ==
  [][(lastOp'.name = "setNextState" /\ lastOp'.err = "ShapeError") => val' = val]_vars
\* the keys of q whose child is finalized, as a leaf or as a branch
FinalKeys(q) == {k \in RegKeys(q) : kind[Child(q, k)] \in {"leaf", "branch"}}
\* the declarations of the call just made: the nodes it gave a concrete value
\* to, each with that value
Declared ==
  IF lastOp'.name = "addChild" /\ ~lastOp'.provisional
  THEN {<<Child(lastOp'.path, lastOp'.key), lastOp'.arg>>}
  ELSE IF lastOp'.name = "setInitialState"
  THEN {<<lastOp'.path, lastOp'.arg>>}
       \cup {<<Child(lastOp'.path, k), lastOp'.arg.kv[k]>> : k \in ObjectKeys(lastOp'.arg)}
  ELSE {}

\* C3: an add-child event or a setInitialState call that gives a concrete value
\* to a key whose child is already finalized (leaf or branch) fails with an
\* already-finalized error, and that child keeps the value of its first
\* finalization.
C3_FinalizeOnce ==
  [][\A d \in Declared :
       LET c == d[1] IN
       kind[c] \in {"leaf", "branch"}
       => /\ lastOp'.err = "FinalizedError"
          /\ kind'[c] = kind[c] /\ val'[c] = val[c] /\ pub'[c] = pub[c]]_vars

\* the call just made finalized the provisional node c in place
FinalizedInPlace(c) ==
  /\ kind[c] = "prov" /\ kind'[c] \in {"leaf", "branch"} /\ gen'[c] = gen[c]
  /\ lastOp'.err = "none"
  /\ c = IF lastOp'.name = "addChild" THEN Child(lastOp'.path, lastOp'.key) ELSE lastOp'.path

\* C4: when a provisional node is finalized with an object of N keys, the
\* subscribers of its value stream are delivered the complete N-key value exactly
\* once and never a value holding a strict subset of the declared keys.
C4_NoTornInitialState ==
  [][\A c \in Paths :
       (FinalizedInPlace(c) /\ isPlainObject(lastOp'.arg) /\ lastOp'.arg # O(<<>>))
       => OnPath(emits', c) = <<[p |-> c, v |-> lastOp'.arg]>>]_vars

\* C5: a subscriber attached to a node while it is provisional receives the
\* initial state once the node is finalized, as a leaf or as a branch, and
\* receives every later value of the node.
C5_PromotionPreservesSubscriptions ==
  [][\A c \in Paths :
       /\ FinalizedInPlace(c) => \E i \in 1..Len(emits') : emits'[i] = [p |-> c, v |-> lastOp'.arg]
       /\ (/\ lastOp'.name = "setNextState" /\ lastOp'.path = c /\ kind[c] \in {"leaf", "branch"}
           /\ lastOp'.err = "none" /\ lastOp'.dropped = {})
          => ((val'[c] # val[c] \/ pub'[c] # pub[c]) => OnPath(emits', c) # <<>>)]_vars

\* the value the stream of q holds: the last one it delivered
Published(q) == IF kind[q] = "leaf" THEN val[q] ELSE pub[q]

\* C6: in every state, the value a branch has published maps exactly the keys of
\* its finalized children, each to that child's latest published value; it holds
\* no key of a provisional child or of a child that has published nothing.
C6_PublishedMappingIsLive ==
  \A q \in Paths :
    (kind[q] = "branch" /\ pub[q] # NoVal) =>
      /\ ObjectKeys(pub[q]) = FinalKeys(q)
      /\ \A k \in ObjectKeys(pub[q]) :
           Published(Child(q, k)) # NoVal /\ pub[q].kv[k] = Published(Child(q, k))

\* C7: once a branch is finalized with key set K, its registry's key set stays K
\* through every later operation.
C7_RegistryShapeImmutable ==
  [][\A q \in Paths :
       (kind[q] = "branch" /\ kind'[q] = "branch" /\ gen'[q] = gen[q])
       => Range(reg'[q]) = RegKeys(q)]_vars

\* C8: an attempt to put children under a leaf (an object declared at a key that
\* is a leaf, or a provisional node that holds children finalized as a leaf)
\* fails with an error, and the leaf keeps its value and has no children.
C8_LeafNeverAcquiresChildren ==
  [][/\ \A q \in Paths :
          kind'[q] = "leaf" => reg'[q] = <<>> /\ \A d \in Below(q) : kind'[d] = "absent"
     /\ \A d \in Declared :
          LET c == d[1] IN
          /\ (kind[c] = "leaf" /\ isPlainObject(d[2]))
             => lastOp'.err # "none" /\ kind'[c] = "leaf" /\ val'[c] = val[c]
          /\ (kind[c] = "prov" /\ reg[c] # <<>> /\ d[2].t = "leaf")
             => lastOp'.err # "none" /\ kind'[c] = "prov" /\ reg'[c] = reg[c]]_vars

\* C9: a finalize or bulk declaration that fails because a key is already
\* finalized leaves every registry, value and lifecycle state as before the call.
C9_RejectedDeclarationChangesNothing ==
  [][lastOp'.err = "FinalizedError" => reg' = reg /\ kind' = kind /\ val' = val /\ pub' = pub]_vars

\* C10: a full new state object assigned to a finalized branch through
\* setNextState is observed by the branch's subscribers as exactly one new value,
\* the complete new state, never a mixture of new and old keys.
C10_SingleEmissionPerAssignment ==
  (/\ lastOp.name = "setNextState"
   /\ kind[lastOp.path] = "branch"
   /\ lastOp.err = "none" /\ lastOp.dropped = {}
   /\ OnPath(emits, lastOp.path) # <<>>)
  => OnPath(emits, lastOp.path) = <<[p |-> lastOp.path, v |-> lastOp.arg]>>

\* C11: a setNextState call on a branch whose registry holds keys is validated
\* and routed against the registry as it is at the call: an object that omits a
\* registered key (or holds another) is rejected with a shape error, and an
\* accepted object reaches the child under every registered key.
C11_LatestRegistryValidation ==
  (/\ lastOp.name = "setNextState"
   /\ kind[lastOp.path] = "branch"
   /\ isPlainObject(lastOp.arg)
   /\ RegKeys(lastOp.path) # {})
  => /\ ObjectKeys(lastOp.arg) # RegKeys(lastOp.path) => lastOp.err = "ShapeError"
     /\ (ObjectKeys(lastOp.arg) = RegKeys(lastOp.path) /\ lastOp.err = "none")
        => \A k \in RegKeys(lastOp.path) :
             kind[Child(lastOp.path, k)] = "leaf" => val[Child(lastOp.path, k)] = lastOp.arg.kv[k]

\* C12: in a setNextState call, a leaf that is assigned the value it already
\* holds publishes nothing and a leaf that is assigned another value publishes
\* it exactly once; a call that changes no leaf makes no node publish, ancestors
\* included.
C12_LeafDeduplication ==
  [][lastOp'.name = "setNextState"
     => /\ \A q \in Paths :
             (kind[q] = "leaf" /\ val'[q] = val[q]) => OnPath(emits', q) = <<>>
        /\ \A q \in Paths :
             (kind[q] = "leaf" /\ val'[q] # val[q]) => OnPath(emits', q) = <<[p |-> q, v |-> val'[q]]>>
        /\ val' = val => emits' = <<>>]_vars

\* a leaf under a parent that has published was just assigned the value it held
C12_Witness ==
  /\ lastOp.name = "setNextState" /\ lastOp.err = "none"
  /\ kind[lastOp.path] = "leaf" /\ lastOp.path # Root
  /\ lastOp.arg = val[lastOp.path]
  /\ emits = <<>>
  /\ pauser /\ pub[Parent(lastOp.path)] # NoVal

Made(op) == IF op.name = "addChild" THEN Child(op.path, op.key) ELSE op.path
Dispatched(op) ==
  /\ op.name \in {"addChild", "setInitialState"}
  /\ op.path \notin op.dropped
  /\ op.name = "addChild" => kind[Made(op)] \in {"absent", "prov"}
IsPrefix(r1, r2) == Len(r1) <= Len(r2) /\ \A i \in 1..Len(r1) : r1[i] = r2[i]
\* What createTree built at c for value v, in the four cases of the dispatch;
\* flag is the condition under which an object value is looked at.
DispatchResult(c, v, supplied, ok, flag) ==
  /\ v = Undef => kind'[c] = "prov" /\ reg'[c] = <<>>
  /\ (v # Undef /\ ~isPlainObject(v) /\ flag /\ ok) => kind'[c] = "leaf" /\ val'[c] = v
  /\ (isPlainObject(v) /\ supplied /\ flag /\ ok)
       => /\ kind'[c] = "branch"
          /\ gen'[c] = gen[c]
          /\ IsPrefix(reg[c], reg'[c])
  /\ (isPlainObject(v) /\ ~supplied /\ flag)
       => /\ kind'[c] = "branch"
          /\ gen'[c] = gen[c] + 1
          /\ Range(reg'[c]) = ObjectKeys(v)

\* C14 as stated: createTree returns a provisional node with an empty registry
\* when the value is absent; a leaf when the value is defined, non-provisional
\* and not a plain object; the supplied provisional node finalized in place
\* (same identity, same add-child sink and registry) when the value is a plain
\* object and a provisional node is supplied; a fresh finalized branch whose
\* registry keys are the object's keys when the value is a plain object and no
\* provisional node is supplied.  The object cases do not look at the
\* provisional flag.
C14_DispatchIgnoringFlag ==
  [][Dispatched(lastOp')
     => DispatchResult(Made(lastOp'), lastOp'.arg, kind[Made(lastOp')] = "prov",
                       lastOp'.err = "none",
                       ~isPlainObject(lastOp'.arg) => ~lastOp'.provisional)]_vars

\* C14, amended: the same four cases, the leaf case and both object cases for
\* a non-provisional request only (a provisional request with a value builds
\* a provisional node).
C14_NodeFactoryDispatch ==
  [][Dispatched(lastOp')
     => /\ DispatchResult(Made(lastOp'), lastOp'.arg, kind[Made(lastOp')] = "prov",
                          lastOp'.err = "none", ~lastOp'.provisional)
        /\ lastOp'.provisional => kind'[Made(lastOp')] = "prov" /\ reg'[Made(lastOp')] = <<>>]_vars

C14_Witness ==
  /\ lastOp.name = "setInitialState" /\ lastOp.err = "none"
  /\ isPlainObject(lastOp.arg) /\ ObjectKeys(lastOp.arg) = {"a"}
  /\ kind[lastOp.path] = "branch" /\ reg[lastOp.path] = <<"b", "a">>
  /\ kind[Child(lastOp.path, "b")] = "prov"

\* Matches(q, S): keys(S) equals the registry key set at every level that the
\* fan-out of S from q reaches; Holds(q, S): every leaf reached holds its part
\* of S.
RECURSIVE Matches(_, _)
Matches(q, S) ==
  \/ kind[q] = "leaf"
  \/ /\ isPlainObject(S)
     /\ ObjectKeys(S) = RegKeys(q)
     /\ \A k \in RegKeys(q) : Matches(Child(q, k), S.kv[k])
RECURSIVE Holds(_, _)
Holds(q, S) ==
  IF kind[q] = "leaf" THEN val[q] = S
  ELSE \A k \in RegKeys(q) : Holds(Child(q, k), S.kv[k])

\* C15: when setNextState(S) is called on a finalized branch and keys(S) equals
\* the registry key set at every level reached, then after the call every child
\* under key k holds S[k] (recursively for nested branches, by replacement for
\* leaves), and the last value published by the branch equals S.
C15_SuccessfulFanOut ==
  (/\ lastOp.name = "setNextState"
   /\ kind[lastOp.path] = "branch"
   /\ Matches(lastOp.path, lastOp.arg))
  => /\ lastOp.err = "none"
     /\ Holds(lastOp.path, lastOp.arg)
     /\ pub[lastOp.path] = lastOp.arg

\* C16: every add-child event on a key whose existing child is provisional,
\* whatever the event's value and provisional flag (an absent value included),
\* leaves under that key the node that earlier callers obtained: the entry
\* keeps its node identity.
C16_AddChildKeepsIdentity ==
  [][(/\ Dispatched(lastOp')
      /\ lastOp'.name = "addChild"
      /\ kind[Made(lastOp')] = "prov")
     => gen'[Made(lastOp')] = gen[Made(lastOp')]]_vars

\* C17: the pause gate stays closed for the whole of an outermost bulk child
\* declaration: between its pause and its un-pause the shared gate is never
\* opened, even when one of the object's values is itself an object whose
\* nested declaration runs its own pause and un-pause on the same gate.
C17_GateClosedDuringDeclaration ==
  lastOp.name \in {"addChild", "setInitialState"} => ~lastOp.reopened

\* C18: the pause gate is open whenever no child declaration is in progress:
\* after any public operation has returned to its caller, with or without an
\* error, the shared pause signal is in the un-paused state.
C18_GateOpenBetweenOperations ==
  lastOp.name \in {"createState", "addChild", "setInitialState", "setNextState", "subscribe"}
  => pauser = TRUE

\* Covers(w, V): w is a published value that has V's value under each of V's
\* keys, at every level (a branch finalized in place may have further,
\* earlier, children).
RECURSIVE Covers(_, _)
Covers(w, V) ==
  IF ~isPlainObject(V) THEN w = V
  ELSE /\ isPlainObject(w)
       /\ \A k \in ObjectKeys(V) : k \in ObjectKeys(w) /\ Covers(w.kv[k], V.kv[k])

\* C19: after a branch is finalized with object V and its population completes,
\* its value stream holds V, and its parent, when all the parent's children are
\* finalized, publishes a mapping with V under the branch's key; for every V,
\* the empty object and objects with an empty-object value included.
C19_FinalizedBranchPublishes ==
  (/\ lastOp.name \in {"addChild", "setInitialState"}
   /\ ~lastOp.provisional
   /\ isPlainObject(lastOp.arg)
   /\ lastOp.err = "none"
   /\ lastOp.path \notin lastOp.dropped)
  => /\ kind[Made(lastOp)] = "branch"
     /\ Covers(pub[Made(lastOp)], lastOp.arg)
     /\ (/\ Made(lastOp) # Root
         /\ FinalKeys(Parent(Made(lastOp))) = RegKeys(Parent(Made(lastOp))))
        => /\ isPlainObject(pub[Parent(Made(lastOp))])
           /\ LastKey(Made(lastOp)) \in ObjectKeys(pub[Parent(Made(lastOp))])
           /\ Covers(pub[Parent(Made(lastOp))].kv[LastKey(Made(lastOp))], lastOp.arg)

\* IsAncestor(q, c): q is c or lies on the chain from the root to c.
IsAncestor(q, c) == Len(q) <= Len(c) /\ \A i \in 1..Len(q) : q[i] = c[i]

\* C20: declaring or finalizing the shape of one subtree causes no new emission
\* on the value stream of a branch that lies outside that subtree and outside
\* its ancestor chain, and whose registry and descendant values did not change.
C20_GateFrame ==
  [][lastOp'.name \in {"addChild", "setInitialState"}
     => \A q \in Paths :
          (/\ kind[q] = "branch"
           /\ ~IsAncestor(q, Made(lastOp'))
           /\ ~IsAncestor(Made(lastOp'), q)
           /\ reg'[q] = reg[q]
           /\ \A r \in Below(q) : val'[r] = val[r] /\ reg'[r] = reg[r] /\ kind'[r] = kind[r])
          => OnPath(emits', q) = <<>>]_vars
====
